---- MODULE Spec2Model ----
(***************************************************************************)
(* Bingo board maker: the upload -> sanitize -> validate -> generate       *)
(* pipeline, the board generator and the session state of the App          *)
(* component, as a state machine.                                          *)
(*                                                                         *)
(* Text is a sequence of one-character strings.  A JSON value is a record  *)
(* [t, v] with t its JavaScript type tag.  A plain object (the catalog)    *)
(* holds the sequence of its [k, v] members in creation order; Entries     *)
(* lists them in Object.keys order.                                        *)
(***************************************************************************)
EXTENDS Integers, Sequences, FiniteSets, TLC

VARIABLES
    prompts,           \* useBoardState: prompts (null or the sanitized catalog)
    boardTiles,        \* useBoardState: boardTiles
    originalFileName,  \* useBoardState: originalFileName
    boardStats,        \* useBoardState: boardStats
    includeFreeSpace,  \* App: includeFreeSpace
    warnings,          \* App: warnings
    isLoading,         \* useUIState: isLoading
    error,             \* useUIState: error ("" is null)
    attempts,          \* uploadRateLimiter.attempts
    now,               \* Date.now()
    upload,            \* the pending handleFileUploadWrapper call
    gen,               \* the running generateBoard call
    recorded,          \* every Date.now() recordAttempt pushed, oldest first
    headerText,        \* useHeaderState: headerText
    call               \* the call of a utility function under check

vars == <<prompts, boardTiles, originalFileName, boardStats, includeFreeSpace,
          warnings, isLoading, error, attempts, now, upload, gen,
          recorded, headerText, call>>

----------------------------------------------------------------------------
(* Bounds of the model *)

\* Math.random() returns k / RandDen for k in 0 .. RandDen-1; the calls of one
\* shuffle all return the same number
RandDen == 2
\* handleRecreate is not taken once the version counter reached this value
MaxVersion == 2
\* a session in which no time passes holds at most MaxUploads recorded uploads
MaxUploads == 3
\* the clock stops after MaxTicks time windows
MaxTicks == 2
\* sanitizeText is applied to texts of at most MaxTextLen characters
MaxTextLen == 4

----------------------------------------------------------------------------
(* Text *)

Min(a, b) == IF a < b THEN a ELSE b
Max(a, b) == IF a > b THEN a ELSE b

RECURSIVE SumSeq(_)
\* the sum of a sequence of numbers, by halves
SumSeq(s) ==
    IF s = <<>> THEN 0
    ELSE IF Len(s) = 1 THEN s[1]
    ELSE SumSeq(SubSeq(s, 1, Len(s) \div 2)) + SumSeq(SubSeq(s, (Len(s) \div 2) + 1, Len(s)))

RECURSIVE Flatten(_)
\* concatenation of the per-character replacements of String.prototype.replace,
\* by halves
Flatten(ss) ==
    IF ss = <<>> THEN <<>>
    ELSE IF Len(ss) = 1 THEN ss[1]
    ELSE Flatten(SubSeq(ss, 1, Len(ss) \div 2))
             \o Flatten(SubSeq(ss, (Len(ss) \div 2) + 1, Len(ss)))

\* characters matched by \s and removed by trim()
Whitespace == {" ", "\t", "\n", "\r", "\f"}
\* characters matched by [\x00-\x08\x0B\x0C\x0E-\x1F\x7F]; "\\x01" stands for U+0001
ControlChars == {"\f", "\\x01"}
\* characters matched by the class of *, _, backtick and ~; "BACKTICK" stands for U+0060
FormattingChars == {"*", "_", "BACKTICK", "~"}
\* code points of the emoji ranges; "\\u2600" stands for U+2600 (one UTF-16 unit)
EmojiChars == {"\\u2600"}

\* the positions of s that do not hold whitespace
InkPositions(s) == {i \in 1..Len(s) : s[i] \notin Whitespace}

\* s from its first character that is not whitespace
TrimStart(s) ==
    LET ink == InkPositions(s)
    IN  IF ink = {} THEN <<>>
        ELSE SubSeq(s, CHOOSE i \in ink : \A j \in ink : i <= j, Len(s))

\* s up to its last character that is not whitespace
TrimEnd(s) ==
    LET ink == InkPositions(s)
    IN  IF ink = {} THEN <<>>
        ELSE SubSeq(s, 1, CHOOSE i \in ink : \A j \in ink : j <= i)

\* String.prototype.trim
Trim(s) == TrimEnd(TrimStart(s))

\* String.prototype.substring(0, n)
Substring0(s, n) == SubSeq(s, 1, Min(Max(n, 0), Len(s)))

\* String.prototype.lastIndexOf(' '): 0-based index, -1 when absent
LastIndexOfSpace(s) ==
    LET ps == {i \in 1..Len(s) : s[i] = " "}
    IN  IF ps = {} THEN -1 ELSE (CHOOSE i \in ps : \A j \in ps : j <= i) - 1

\* String.prototype.replace(/\s+/g, ' '): a run of whitespace leaves one space
\* at the place of its first character
CollapseWhitespace(s) ==
    LET kept == SelectSeq([i \in 1..Len(s) |-> i],
                          LAMBDA i : s[i] \notin Whitespace
                                     \/ i = 1 \/ s[i - 1] \notin Whitespace)
    IN  [n \in 1..Len(kept) |-> IF s[kept[n]] \in Whitespace THEN " " ELSE s[kept[n]]]

\* String.prototype.toLowerCase on the letters the inputs use
LowerChar(c) ==
    CASE c = "J" -> "j" [] c = "S" -> "s" [] c = "O" -> "o" [] c = "N" -> "n"
      [] c = "A" -> "a" [] c = "B" -> "b" [] c = "X" -> "x" [] c = "P" -> "p"
      [] c = "F" -> "f" [] c = "R" -> "r" [] c = "E" -> "e" [] c = "C" -> "c"
      [] OTHER -> c
ToLowerCase(s) == [i \in 1..Len(s) |-> LowerChar(s[i])]

\* String.prototype.endsWith
EndsWith(s, suffix) ==
    /\ Len(s) >= Len(suffix)
    /\ SubSeq(s, Len(s) - Len(suffix) + 1, Len(s)) = suffix

----------------------------------------------------------------------------
(* JSON values *)

JStr(s) == [t |-> "string", v |-> s]
JNum == [t |-> "number", v |-> <<>>]
JNull == [t |-> "null", v |-> <<>>]
JArr(items) == [t |-> "array", v |-> items]
\* members: sequence of [k |-> text, v |-> JSON value]
JObj(members) == [t |-> "object", v |-> members]

\* Array.isArray
IsArray(x) == x.t = "array"

\* decimal digits of an array index below 100, as Object.keys yields them
IndexKey(i) ==
    LET d == <<"0", "1", "2", "3", "4", "5", "6", "7", "8", "9">>
    IN  IF i < 10 THEN <<d[i + 1]>> ELSE <<d[(i \div 10) + 1], d[(i % 10) + 1]>>

\* the decimal digits and their values
DigitChars == {"0", "1", "2", "3", "4", "5", "6", "7", "8", "9"}
DigitValue(c) == CHOOSE d \in 0..9 : IndexKey(d) = <<c>>

RECURSIVE DecimalValue(_)
DecimalValue(k) ==
    IF k = <<>> THEN 0
    ELSE DecimalValue(SubSeq(k, 1, Len(k) - 1)) * 10 + DigitValue(k[Len(k)])

\* the array index a property name spells (canonical decimal, here of at most
\* 9 digits, so below 2^32 - 1), -1 for any other name
ArrayIndex(k) ==
    IF /\ k # <<>>
       /\ Len(k) <= 9
       /\ \A i \in 1..Len(k) : k[i] \in DigitChars
       /\ (Len(k) = 1 \/ k[1] # "0")
    THEN DecimalValue(k)
    ELSE -1

RECURSIVE SortIndexed(_, _)
\* the members at positions idx in ascending order of their array index
SortIndexed(members, idx) ==
    IF idx = {} THEN <<>>
    ELSE LET m == CHOOSE i \in idx :
                      \A j \in idx : ArrayIndex(members[i].k) <= ArrayIndex(members[j].k)
         IN  <<members[m]>> \o SortIndexed(members, idx \ {m})

\* own property order of a plain object whose members were created in the
\* given order: array-index names ascending, then the other names as created
OwnPropertyOrder(members) ==
    LET idx == {i \in 1..Len(members) : ArrayIndex(members[i].k) >= 0}
    IN  IF idx = {} THEN members
        ELSE SortIndexed(members, idx)
                 \o SelectSeq(members, LAMBDA e : ArrayIndex(e.k) < 0)

\* Object.keys / data[key] of a parsed value of typeof 'object' (object or
\* array); an object's v holds its members in creation order
Entries(data) ==
    IF data.t = "array"
    THEN [i \in 1..Len(data.v) |-> [k |-> IndexKey(i - 1), v |-> data.v[i]]]
    ELSE OwnPropertyOrder(data.v)

\* the names of a sequence of members
ObjectKeys(obj) == [i \in 1..Len(obj) |-> obj[i].k]

\* obj[key] = value on a plain object: overwrite in place or append
ObjectSet(obj, key, value) ==
    IF \E i \in 1..Len(obj) : obj[i].k = key
    THEN [i \in 1..Len(obj) |-> IF obj[i].k = key THEN [k |-> key, v |-> value] ELSE obj[i]]
    ELSE Append(obj, [k |-> key, v |-> value])

----------------------------------------------------------------------------
(* sanitization.js *)

EscapeAngle(c) ==
    CASE c = "<" -> <<"&", "l", "t", ";">>
      [] c = ">" -> <<"&", "g", "t", ";">>
      [] OTHER -> <<c>>

EscapeDangerous(c) ==
    CASE c = "<" -> <<"&", "l", "t", ";">>
      [] c = ">" -> <<"&", "g", "t", ";">>
      [] c = "\"" -> <<"&", "q", "u", "o", "t", ";">>
      [] c = "'" -> <<"&", "#", "x", "2", "7", ";">>
      [] c = "&" -> <<"&", "a", "m", "p", ";">>
      [] OTHER -> <<c>>

\* LimitLength without the cut at maxLength
LimitLengthAtWordOnly(s, maxLength) ==
    IF Len(s) > maxLength
    THEN LET lastSpace == LastIndexOfSpace(s)
         IN  IF lastSpace * 10 > maxLength * 8 THEN Substring0(s, lastSpace) ELSE s
    ELSE s

\* "Limit length" step of sanitizeText
LimitLength(s, maxLength) ==
    IF Len(s) > maxLength
    THEN LET cut == Trim(Substring0(s, maxLength))
             lastSpace == LastIndexOfSpace(cut)
         IN  IF lastSpace * 10 > maxLength * 8 THEN Substring0(cut, lastSpace) ELSE cut
    ELSE s

\* the formatting filter of sanitizeText
StripFormatting(s) == SelectSeq(s, LAMBDA c : c \notin FormattingChars)

sanitizeText(text, maxLength, allowEmojis, allowBasicFormatting, trimWhitespace) ==
    IF text.t # "string" THEN <<>>
    ELSE LET s1 == IF trimWhitespace THEN Trim(text.v) ELSE text.v
             s2 == Flatten([i \in 1..Len(s1) |-> EscapeAngle(s1[i])])
             s3 == Flatten([i \in 1..Len(s2) |-> EscapeDangerous(s2[i])])
             s4 == SelectSeq(s3, LAMBDA c : c \notin ControlChars)
             s5 == IF allowEmojis THEN s4 ELSE SelectSeq(s4, LAMBDA c : c \notin EmojiChars)
             s6 == IF allowBasicFormatting THEN s5 ELSE StripFormatting(s5)
             s7 == LimitLength(s6, maxLength)
         IN  CollapseWhitespace(s7)

sanitizeCategoryName(category) == sanitizeText(JStr(category), 50, TRUE, FALSE, TRUE)

sanitizePromptText(prompt) == sanitizeText(prompt, 200, TRUE, FALSE, TRUE)

\* the filter of sanitizePromptsData: prompt && prompt.length >= 3
KeepPrompt(p) == p # <<>> /\ Len(p) >= 3

\* the assignment one iteration of the forEach of sanitizePromptsData makes to
\* sanitizedData: none, or one [k, v]
SanitizeStep(e) ==
    LET sanitizedCategory == sanitizeCategoryName(e.k)
        kept == SelectSeq([i \in 1..Len(e.v.v) |-> sanitizePromptText(e.v.v[i])],
                          KeepPrompt)
    IN  IF sanitizedCategory # <<>> /\ IsArray(e.v)
        THEN <<[k |-> sanitizedCategory, v |-> JArr([i \in 1..Len(kept) |-> JStr(kept[i])])]>>
        ELSE <<>>

\* obj after obj[a.k] = a.v for each a of assignments in turn (ObjectSet
\* repeated): a name keeps the place of its first assignment and the value of
\* its last
ObjectSetAll(obj, assignments) ==
    LET all == obj \o assignments
        firsts == SelectSeq([i \in 1..Len(all) |-> i],
                            LAMBDA i : \A j \in 1..(i - 1) : all[j].k # all[i].k)
        Last(key) == CHOOSE i \in 1..Len(all) :
                         all[i].k = key /\ \A j \in (i + 1)..Len(all) : all[j].k # key
    IN  [n \in 1..Len(firsts) |-> all[Last(all[firsts[n]].k)]]

\* the forEach of sanitizePromptsData over Object.keys(data)
SanitizeEntries(entries, acc) ==
    ObjectSetAll(acc, Flatten([i \in 1..Len(entries) |-> SanitizeStep(entries[i])]))

sanitizePromptsData(data) ==
    IF data.t \notin {"object", "array"} THEN JObj(<<>>)
    ELSE JObj(SanitizeEntries(Entries(data), <<>>))

----------------------------------------------------------------------------
(* validation.js *)

MIN_PROMPTS == 24
MAX_PROMPTS == 1000
MAX_CATEGORIES == 50
MAX_PROMPT_LENGTH == 200
MIN_PROMPT_LENGTH == 3
MAX_CATEGORY_NAME_LENGTH == 50
MAX_FILE_SIZE == 1048576

DotJson == <<".", "j", "s", "o", "n">>

\* the code of the ValidationError thrown, "OK" when none is
validateFile(file) ==
    IF ~EndsWith(ToLowerCase(file.name), DotJson) THEN "INVALID_FILE_TYPE"
    ELSE IF file.size > MAX_FILE_SIZE THEN "FILE_TOO_LARGE"
    ELSE IF file.size = 0 THEN "EMPTY_FILE"
    ELSE "OK"

\* file text: [kind, data]; kind "json" is text that JSON.parse accepts, with
\* value data; "empty" is '', "blank" is whitespace only, "invalid" is the rest
validateAndParseJSON(text) ==
    IF text.kind = "empty" THEN [code |-> "EMPTY_CONTENT", data |-> JNull]
    ELSE IF text.kind = "blank" THEN [code |-> "WHITESPACE_ONLY", data |-> JNull]
    ELSE IF text.kind # "json" THEN [code |-> "INVALID_JSON", data |-> JNull]
    ELSE [code |-> "OK", data |-> text.data]

\* the issue pushed for one prompt, "" when none is
PromptIssue(prompt) ==
    IF prompt.t # "string" THEN "Prompt must be a string"
    ELSE IF Trim(prompt.v) = <<>> THEN "Prompt is empty or contains only whitespace"
    ELSE IF Len(prompt.v) < MIN_PROMPT_LENGTH THEN "Prompt too short"
    ELSE IF Len(prompt.v) > MAX_PROMPT_LENGTH THEN "Prompt too long"
    ELSE ""

\* the issues pushed to promptIssues for one category
PromptIssuesOf(e) ==
    LET all == [i \in 1..Len(e.v.v) |->
                   [category |-> e.k, index |-> i - 1, issue |-> PromptIssue(e.v.v[i])]]
    IN  SelectSeq(all, LAMBDA x : x.issue # "")

\* one iteration of the categories.forEach of validatePromptsStructure
CategoryStep(e, st) ==
    LET Issue(text) == [category |-> e.k, index |-> -1, issue |-> text]
    IN  IF Trim(e.k) = <<>>
        THEN [st EXCEPT !.categoryIssues =
                  Append(@, Issue("Category name is empty or invalid"))]
        ELSE LET st1 == IF Len(e.k) > MAX_CATEGORY_NAME_LENGTH
                        THEN [st EXCEPT !.categoryIssues =
                                  Append(@, Issue("Category name too long"))]
                        ELSE st
             IN  IF ~IsArray(e.v)
                 THEN [st1 EXCEPT !.categoryIssues =
                           Append(@, Issue("Category must contain an array of prompts"))]
                 ELSE IF Len(e.v.v) = 0
                 THEN [st1 EXCEPT !.categoryIssues =
                           Append(@, Issue("Category contains no prompts"))]
                 ELSE [st1 EXCEPT !.promptIssues = @ \o PromptIssuesOf(e),
                                  !.totalPrompts = @ + Len(e.v.v)]

\* the categories.forEach of validatePromptsStructure: every iteration only
\* appends to the two lists and adds to the total
CategoryLoop(entries, st) ==
    LET zero == [categoryIssues |-> <<>>, promptIssues |-> <<>>, totalPrompts |-> 0]
        each == [i \in 1..Len(entries) |-> CategoryStep(entries[i], zero)]
    IN  [categoryIssues |->
             st.categoryIssues \o Flatten([i \in 1..Len(entries) |-> each[i].categoryIssues]),
         promptIssues |->
             st.promptIssues \o Flatten([i \in 1..Len(entries) |-> each[i].promptIssues]),
         totalPrompts |->
             st.totalPrompts + SumSeq([i \in 1..Len(entries) |-> each[i].totalPrompts])]

\* TotalsCode with the limits themselves refused
TotalsCodeExclusive(totalPrompts) ==
    IF totalPrompts <= MIN_PROMPTS THEN "INSUFFICIENT_PROMPTS"
    ELSE IF totalPrompts >= MAX_PROMPTS THEN "TOO_MANY_PROMPTS"
    ELSE "OK"

\* the two checks of the total that end validatePromptsStructure
TotalsCode(totalPrompts) ==
    IF totalPrompts < MIN_PROMPTS THEN "INSUFFICIENT_PROMPTS"
    ELSE IF totalPrompts > MAX_PROMPTS THEN "TOO_MANY_PROMPTS"
    ELSE "OK"

\* [code, details, totalPrompts]: code of the ValidationError thrown ("OK"
\* when none is), the members of its details the model keeps (<<>> when none
\* is thrown; suggestion is TRUE for a text), and the total counted
validatePromptsStructure(data) ==
    LET Thrown(code, details, totalPrompts) ==
            [code |-> code, details |-> details, totalPrompts |-> totalPrompts]
    IN  IF data.t # "object" THEN Thrown("INVALID_STRUCTURE", [suggestion |-> TRUE], 0)
        ELSE IF Len(data.v) = 0 THEN Thrown("NO_CATEGORIES", [suggestion |-> TRUE], 0)
        ELSE IF Len(data.v) > MAX_CATEGORIES
        THEN Thrown("TOO_MANY_CATEGORIES", [suggestion |-> TRUE], 0)
        ELSE LET st == CategoryLoop(Entries(data), [categoryIssues |-> <<>>,
                                                    promptIssues |-> <<>>,
                                                    totalPrompts |-> 0])
             IN  IF Len(st.categoryIssues) > 0
                 THEN Thrown("CATEGORY_ISSUES",
                             [issues |-> st.categoryIssues, suggestion |-> TRUE],
                             st.totalPrompts)
                 ELSE IF Len(st.promptIssues) > 0
                 THEN Thrown("PROMPT_ISSUES",
                             [issues |-> SubSeq(st.promptIssues, 1,
                                                Min(10, Len(st.promptIssues))),
                              totalIssues |-> Len(st.promptIssues),
                              suggestion |-> TRUE],
                             st.totalPrompts)
                 ELSE IF TotalsCode(st.totalPrompts) # "OK"
                 THEN Thrown(TotalsCode(st.totalPrompts),
                             [totalPrompts |-> st.totalPrompts, suggestion |-> TRUE],
                             st.totalPrompts)
                 ELSE Thrown("OK", <<>>, st.totalPrompts)

\* all prompts of a catalog as [category, prompt] in Object.keys order
FlatPrompts(entries) ==
    Flatten([c \in 1..Len(entries) |->
                [i \in 1..Len(entries[c].v.v) |->
                    [category |-> entries[c].k, prompt |-> entries[c].v.v[i].v]]])

\* prompt.trim().toLowerCase()
NormalizePrompt(p) == ToLowerCase(Trim(p))

\* the duplicates list: one entry per prompt whose normalized text occurred before
findDuplicatePrompts(data) ==
    LET flat == FlatPrompts(Entries(data))
        \* normalizedPrompt of every prompt, computed once
        norm == SubSeq([i \in 1..Len(flat) |-> NormalizePrompt(flat[i].prompt)], 1, Len(flat))
        First(i) == CHOOSE j \in 1..i :
                        norm[j] = norm[i] /\ \A h \in 1..(j - 1) : norm[h] # norm[i]
        dupIdx == SelectSeq([i \in 1..Len(flat) |-> i], LAMBDA i : First(i) # i)
    IN  [n \in 1..Len(dupIdx) |->
            [prompt |-> flat[dupIdx[n]].prompt,
             categories |-> <<flat[First(dupIdx[n])].category, flat[dupIdx[n]].category>>,
             normalizedPrompt |-> norm[dupIdx[n]]]]

\* Math.ceil(a / b) for positive b
CeilDiv(a, b) == (a + b - 1) \div b

\* [code, warnings]: validation.js validatePromptsData(data, options)
validatePromptsData(data, allowDuplicates, warnOnDuplicates, free) ==
    LET structure == validatePromptsStructure(data)
        totalPrompts == SumSeq([i \in 1..Len(data.v) |-> Len(data.v[i].v.v)])
        duplicates == IF warnOnDuplicates \/ ~allowDuplicates
                      THEN findDuplicatePrompts(data) ELSE <<>>
        promptsNeeded == IF free THEN 24 ELSE 25
        idealPromptsPerCategory == CeilDiv(promptsNeeded, Len(data.v))
        hasImbalancedCategories ==
            \E i \in 1..Len(data.v) :
                /\ Len(data.v[i].v.v) < idealPromptsPerCategory
                /\ totalPrompts > promptsNeeded
    IN  IF structure.code # "OK" THEN [code |-> structure.code, warnings |-> <<>>]
        ELSE IF Len(duplicates) > 0 /\ ~allowDuplicates
        THEN [code |-> "DUPLICATE_PROMPTS", warnings |-> <<>>]
        ELSE [code |-> "OK",
              warnings |-> (IF Len(duplicates) > 0 THEN <<"DUPLICATE_PROMPTS">> ELSE <<>>)
                           \o (IF hasImbalancedCategories
                               THEN <<"IMBALANCED_CATEGORIES">> ELSE <<>>)]

----------------------------------------------------------------------------
(* boardGenerator.js *)

FREE_SPACE == <<"F", "R", "E", "E", "_", "S", "P", "A", "C", "E">>

\* the numerators of the numbers Math.random() returns
RandValues == 0..(RandDen - 1)

\* Math.floor(Math.random() * n) when Math.random() returns k / RandDen
RandomIndex(k, n) == (k * n) \div RandDen

RECURSIVE ShuffleLoop(_, _, _)
\* the for loop of shuffleArray at 0-based index i, Math.random() returning
\* rnd / RandDen
ShuffleLoop(shuffled, i, rnd) ==
    IF i <= 0 THEN shuffled
    ELSE LET j == RandomIndex(rnd, i + 1)
             swapped == [shuffled EXCEPT ![i + 1] = shuffled[j + 1],
                                         ![j + 1] = shuffled[i + 1]]
         IN  ShuffleLoop(swapped, i - 1, rnd)

shuffleArray(array, rnd) == ShuffleLoop(array, Len(array) - 1, rnd)

\* boardGenerator.js validatePromptsData(data): "OK" or the message of the Error thrown
generatorValidatePromptsData(data) ==
    IF data.t \notin {"object", "array"} THEN "Invalid JSON: Must be an object with categories"
    ELSE LET entries == Entries(data)
             bad == {i \in 1..Len(entries) :
                        ~IsArray(entries[i].v) \/ Len(entries[i].v.v) = 0}
             first == CHOOSE i \in bad : \A j \in bad : i <= j
             totalPrompts == SumSeq([i \in 1..Len(entries) |-> Len(entries[i].v.v)])
         IN  IF Len(entries) = 0 THEN "Invalid JSON: Must contain at least one category"
             ELSE IF bad # {}
             THEN (IF ~IsArray(entries[first].v)
                   THEN "Invalid JSON: Category must be an array"
                   ELSE "Invalid JSON: Category cannot be empty")
             ELSE IF totalPrompts < 24 THEN "Insufficient prompts: Need at least 24 prompts total"
             ELSE "OK"

totalTilesNeeded(free) == IF free THEN 24 ELSE 25

\* prompts[category] of the index-th category (0-based), as texts
CategoryPrompts(data, index) ==
    LET arr == Entries(data)[index + 1].v.v
    IN  [i \in 1..Len(arr) |-> arr[i].v]

\* promptsPerCategory rounding up instead of down
promptsPerCategoryCeil(needed, totalCategories) ==
    (needed + totalCategories - 1) \div totalCategories

\* Math.floor(totalTilesNeeded / totalCategories)
promptsPerCategory(needed, totalCategories) == needed \div totalCategories

\* totalTilesNeeded % totalCategories
remainderPrompts(needed, totalCategories) == needed % totalCategories

promptsToTake(index, perCategory, remainder) ==
    IF index < remainder THEN perCategory + 1 ELSE perCategory

actualPromptsToTake(toTake, available) == Min(toTake, available)

\* actualPromptsToTake of the index-th category (0-based)
TakeCount(data, free, index) ==
    LET totalCategories == Len(Entries(data))
        perCategory == promptsPerCategory(totalTilesNeeded(free), totalCategories)
        remainder == remainderPrompts(totalTilesNeeded(free), totalCategories)
    IN  actualPromptsToTake(promptsToTake(index, perCategory, remainder),
                            Len(CategoryPrompts(data, index)))

\* what the forEach of generateBoard pushes for the index-th category
TakenFrom(data, free, rnd, index) ==
    LET shuffledCategory == shuffleArray(CategoryPrompts(data, index), rnd)
    IN  SubSeq(shuffledCategory, 1, TakeCount(data, free, index))

\* the categories.forEach of generateBoard from the index-th category on
SelectLoop(data, free, rnd, index, selectedPrompts) ==
    selectedPrompts
        \o Flatten([c \in 1..(Len(Entries(data)) - index) |->
                        TakenFrom(data, free, rnd, index + c - 1)])

\* prompts[randomCategory].filter(prompt => !selectedPrompts.includes(prompt))
availablePrompts(data, index, selectedPrompts) ==
    SelectSeq(CategoryPrompts(data, index),
              LAMBDA p : \A i \in 1..Len(selectedPrompts) : selectedPrompts[i] # p)

\* one iteration of the while loop, Math.random() returning k1/RandDen, k2/RandDen
BackfillStep(data, selectedPrompts, k1, k2) ==
    LET randomCategory == RandomIndex(k1, Len(Entries(data)))
        available == availablePrompts(data, randomCategory, selectedPrompts)
    IN  IF Len(available) > 0
        THEN Append(selectedPrompts, available[RandomIndex(k2, Len(available)) + 1])
        ELSE selectedPrompts

\* 0-based index of the free space tile
FreeSpaceIndex == 12

\* PlaceTiles with the free space one cell after the centre
PlaceTilesOffCentre(shuffledPrompts, free) ==
    [n \in 1..25 |->
        LET i == n - 1
        IN  IF free
            THEN (IF i = FreeSpaceIndex + 1 THEN FREE_SPACE
                  ELSE shuffledPrompts[(IF i < FreeSpaceIndex + 1 THEN i ELSE i - 1) + 1])
            ELSE shuffledPrompts[i + 1]]

\* the 25-item boardTiles array filled from shuffledPrompts
PlaceTiles(shuffledPrompts, free) ==
    [n \in 1..25 |->
        LET i == n - 1
        IN  IF free
            THEN (IF i = FreeSpaceIndex THEN FREE_SPACE
                  ELSE shuffledPrompts[(IF i < FreeSpaceIndex THEN i ELSE i - 1) + 1])
            ELSE shuffledPrompts[i + 1]]

\* BingoTile.jsx: what a tile shows, the free space or the prompt text
BingoTile(text, isFreeSpace) ==
    LET isActuallyFreeSpace == isFreeSpace \/ text = FREE_SPACE
    IN  [freeSpace |-> isActuallyFreeSpace,
         promptText |-> IF isActuallyFreeSpace THEN <<>> ELSE text]

\* BingoBoard.jsx: the 25 tiles of the grid in the order they are rendered,
\* tiles[index] || '' for each index and isFreeSpace for index 12
BingoBoard(tiles) ==
    [n \in 1..25 |->
        BingoTile(IF n <= Len(tiles) THEN tiles[n] ELSE <<>>, n - 1 = 12)]

\* FinishBoard returning shuffledPrompts, not placed in the 25-item array
FinishBoardUnplaced(selectedPrompts, free, rnd) ==
    shuffleArray(SubSeq(selectedPrompts, 1,
                        Min(totalTilesNeeded(free), Len(selectedPrompts))), rnd)

\* generateBoard from the trim on: slice, shuffle, place
FinishBoard(selectedPrompts, free, rnd) ==
    LET finalPrompts == SubSeq(selectedPrompts, 1,
                               Min(totalTilesNeeded(free), Len(selectedPrompts)))
    IN  PlaceTiles(shuffleArray(finalPrompts, rnd), free)

\* the generateBoard call: not running
GenIdle ==
    [pc |-> "idle", caller |-> "none", prompts |-> JObj(<<>>), free |-> TRUE,
     selected |-> <<>>]

\* shuffleArray swapping the elements of the array it is given
ArgumentShuffled(array, rnd) == ShuffleLoop(array, Len(array) - 1, rnd)

\* the array given to shuffleArray once shuffleArray has returned: the loop
\* swaps the elements of the copy [...array]
ArgumentAfterShuffle(array, rnd) == array

\* the catalog object given to generateBoard once the forEach has called
\* shuffleArray(prompts[category]) for every category
CatalogAfterSelect(data, rnd) ==
    IF data.t = "array"
    THEN JArr([i \in 1..Len(data.v) |-> JArr(ArgumentAfterShuffle(data.v[i].v, rnd))])
    ELSE JObj([i \in 1..Len(data.v) |->
                  [k |-> data.v[i].k,
                   v |-> JArr(ArgumentAfterShuffle(data.v[i].v.v, rnd))]])

\* the generateBoard call at its while loop, after the forEach; prompts is the
\* catalog object of the call
GenLoop(caller, data, free, rnd) ==
    [pc |-> "loop", caller |-> caller, prompts |-> CatalogAfterSelect(data, rnd),
     free |-> free, selected |-> SelectLoop(data, free, rnd, 0, <<>>)]

\* the while loop's condition
LoopCondition == Len(gen.selected) < totalTilesNeeded(gen.free)

\* one iteration of the while loop of generateBoard
Backfill ==
    /\ UNCHANGED <<recorded, headerText, call>>
    /\ gen.pc = "loop"
    /\ LoopCondition
    /\ \E k1, k2 \in RandValues :
          gen' = [gen EXCEPT !.selected = BackfillStep(gen.prompts, gen.selected, k1, k2)]
    /\ UNCHANGED <<prompts, boardTiles, originalFileName, boardStats, includeFreeSpace,
                   warnings, isLoading, error, attempts, now, upload>>

----------------------------------------------------------------------------
(* Input catalogs *)

Digits == <<"0", "1", "2", "3", "4", "5", "6", "7", "8", "9">>
Letters == <<"a", "b", "c", "d", "e", "f", "g", "h", "i", "j", "k", "l", "m",
             "n", "o", "p", "q", "r", "s", "t", "u", "v", "w", "x", "y", "z">>

\* the prompt text made of a letter and a two-digit number
P(letter, n) == JStr(<<letter, Digits[(n \div 10) + 1], Digits[(n % 10) + 1]>>)

\* the category named by letter, with prompts letter00 .. letter(n-1)
Category(letter, n) == [k |-> <<letter>>, v |-> JArr([i \in 1..n |-> P(letter, i - 1)])]

\* count categories of size prompts each, named by the first letters
Uniform(count, size) == JObj([c \in 1..count |-> Category(Letters[c], size)])

One24 == Uniform(1, 24)
One25 == Uniform(1, 25)
Two12 == Uniform(2, 12)
Two13 == Uniform(2, 13)
Three10 == Uniform(3, 10)
Five5 == Uniform(5, 5)
Five10 == Uniform(5, 10)
TwentyFive1 == Uniform(25, 1)
\* five categories of five; the name of the last is sanitized to "7"
LastNumeric == JObj(SubSeq(Five5.v, 1, 4)
                    \o <<[k |-> <<"_", "7">>, v |-> Category("e", 5).v]>>)
\* a short first category: the while loop has to fill in
Uneven == JObj(<<Category("a", 11), Category("b", 20)>>)
\* the same prompt twice in one category
One24Dup == JObj(<<[k |-> <<"a">>, v |-> JArr(<<P("a", 1)>> \o Category("a", 23).v.v)]>>)
\* the same prompt in two categories, 24 prompts in all
TwoDup == JObj(<<Category("a", 11),
                 [k |-> <<"b">>, v |-> JArr(<<P("a", 0)>> \o Category("b", 12).v.v)]>>)
\* two equally-sized categories that share a prompt, 26 prompts in all
Two13Dup == JObj(<<Category("a", 13),
                   [k |-> <<"b">>, v |-> JArr(<<P("a", 0)>> \o Category("b", 12).v.v)]>>)
\* a prompt that spells the free space marker
WithMarker == JObj(<<[k |-> <<"a">>, v |-> JArr(<<JStr(FREE_SPACE)>> \o Category("a", 25).v.v)]>>)
\* malformed entries next to 25 well-formed prompts: a category that is not
\* an array, a prompt that is not a string, a prompt of two characters
Malformed == JObj(<<Category("a", 12),
                    [k |-> <<"b">>, v |-> JStr(<<"n", "o", "p", "e">>)],
                    [k |-> <<"c">>,
                     v |-> JArr(<<JNum, JStr(<<"h", "i">>)>> \o Category("c", 13).v.v)]>>)
\* too few prompts
Few == Uniform(2, 5)
\* a category whose prompts are all too short
ShortOnly == JObj(<<Category("a", 24), [k |-> <<"b">>, v |-> JArr(<<JStr(<<"h", "i">>)>>)]>>)
\* 23 well-formed prompts and one of two characters: 24 in the file, 23 after
\* the sanitizer
ShortOne == JObj(<<[k |-> <<"a">>, v |-> JArr(Category("a", 23).v.v \o <<JStr(<<"h", "i">>)>>)]>>)
\* 24 prompts in the file, 23 after the sanitizer, which leaves the second
\* category empty
Emptied == JObj(<<Category("a", 23), [k |-> <<"b">>, v |-> JArr(<<JStr(<<"h", "i">>)>>)]>>)
\* count categories of one prompt each, with two-letter names
Singles(count) ==
    JObj([c \in 1..count |->
            [k |-> <<Letters[((c - 1) \div 26) + 1], Letters[((c - 1) % 26) + 1]>>,
             v |-> JArr(<<P("p", c - 1)>>)]])
\* one category more than MAX_CATEGORIES
Many51 == Singles(MAX_CATEGORIES + 1)
\* a top-level array holding one array of 24 prompts
TopArray == JArr(<<Category("a", 24).v>>)

RawCatalogs == {One24, One25, Two12, Two13, Three10, Five5, Five10, TwentyFive1, LastNumeric,
                Uneven,
                One24Dup, TwoDup, Two13Dup, WithMarker, Malformed, Few, ShortOnly,
                TopArray, JObj(<<>>)}

----------------------------------------------------------------------------
(* State *)

\* constants/defaults.js DEFAULT_HEADER_TEXT, an emoji being one character
DEFAULT_HEADER_TEXT ==
    [title |-> <<"\\u2600", " ", "2", "0", "2", "5", " ", "P", "a", "r", "t", "y", " ", "\\u2600">>,
     instructions |-> <<"Y", "o", "u", " ", "c", "a", "n", "'", "t", " ", "\\u2600">>,
     subtitle |-> <<"\\u2600", " ", "F", "i", "n", "d", ".", ".", ".">>]

\* no utility function is being called
NoCall == [fn |-> "none"]

NullPrompts == [loaded |-> FALSE, data |-> JObj(<<>>)]

\* INITIAL_BOARD_STATS without generatedAt
INITIAL_BOARD_STATS == [totalPrompts |-> 0, categories |-> <<>>, version |-> 1]

NoFile == [name |-> <<>>, type |-> "", size |-> 0, text |-> [kind |-> "empty", data |-> JNull]]

NoUpload ==
    [phase |-> "none", file |-> NoFile, free |-> TRUE, code |-> "",
     tiles |-> <<>>, promptsData |-> JObj(<<>>), warnings |-> <<>>]

\* Object.values(data).reduce((sum, prompts) => sum + prompts.length, 0)
TotalPromptsOf(data) == SumSeq([i \in 1..Len(data.v) |-> Len(data.v[i].v.v)])

\* the value updateBoardStats sets, without generatedAt
updateBoardStats(promptsData, version) ==
    [totalPrompts |-> SumSeq([i \in 1..Len(promptsData.v) |-> Len(promptsData.v[i].v.v)]),
     categories |-> ObjectKeys(Entries(promptsData)),
     version |-> version]

\* the state after construction, before any file is chosen
Init ==
    /\ recorded = <<>>
    /\ headerText = DEFAULT_HEADER_TEXT
    /\ call = NoCall
    /\ prompts = NullPrompts
    /\ includeFreeSpace = TRUE
    /\ boardTiles = <<>>
    /\ originalFileName = <<>>
    /\ boardStats = INITIAL_BOARD_STATS
    /\ warnings = <<>>
    /\ isLoading = FALSE
    /\ error = ""
    /\ attempts = <<>>
    /\ now = 0
    /\ upload = NoUpload
    /\ gen = GenIdle

----------------------------------------------------------------------------
(* generateBoard called on its own *)

InitGen ==
    /\ recorded = <<>>
    /\ headerText = DEFAULT_HEADER_TEXT
    /\ call = NoCall
    /\ boardTiles = <<>>
    /\ originalFileName = <<>>
    /\ boardStats = INITIAL_BOARD_STATS
    /\ warnings = <<>>
    /\ isLoading = FALSE
    /\ error = ""
    /\ attempts = <<>>
    /\ now = 0
    /\ upload = NoUpload
    /\ gen = GenIdle
    /\ \E raw \in RawCatalogs : prompts = [loaded |-> TRUE, data |-> sanitizePromptsData(raw)]
    /\ includeFreeSpace \in BOOLEAN

\* generateBoard(prompts, includeFreeSpace) up to its while loop
DirectCall ==
    /\ UNCHANGED <<recorded, headerText, call>>
    /\ gen.pc = "idle"
    /\ LET code == generatorValidatePromptsData(prompts.data)
       IN  IF code # "OK"
           THEN /\ error' = code
                /\ gen' = gen
           ELSE /\ error' = ""
                /\ \E rnd \in RandValues :
                      gen' = GenLoop("direct", prompts.data, includeFreeSpace, rnd)
    /\ UNCHANGED <<prompts, boardTiles, originalFileName, boardStats, includeFreeSpace,
                   warnings, isLoading, attempts, now, upload>>

\* generateBoard from the end of its while loop to its return
DirectReturn ==
    /\ UNCHANGED <<recorded, headerText, call>>
    /\ gen.pc = "loop"
    /\ gen.caller = "direct"
    /\ ~LoopCondition
    /\ \E rnd \in RandValues :
          boardTiles' = FinishBoard(gen.selected, gen.free, rnd)
    /\ prompts' = [prompts EXCEPT !.data = gen.prompts]
    /\ gen' = GenIdle
    /\ UNCHANGED <<originalFileName, boardStats, includeFreeSpace,
                   warnings, isLoading, error, attempts, now, upload>>

NextGen == DirectCall \/ Backfill \/ DirectReturn

SpecGen == InitGen /\ [][NextGen]_vars

----------------------------------------------------------------------------
(* Input files *)

Name(base, extension) == base \o <<".">> \o extension

Json == <<"j", "s", "o", "n">>

JsonFile(base, data) ==
    [name |-> Name(base, Json), type |-> "application/json", size |-> 2048,
     text |-> [kind |-> "json", data |-> data]]

FileOne24 == JsonFile(<<"o", "n", "e">>, One24)
FileMalformed == JsonFile(<<"m", "a", "l">>, Malformed)
FileShortOne == JsonFile(<<"s", "h", "o", "r", "t", "1">>, ShortOne)
FileEmptied == JsonFile(<<"e", "m", "p", "t", "y">>, Emptied)
FileMany51 == JsonFile(<<"m", "a", "n", "y">>, Many51)
FileTwoDup == JsonFile(<<"d", "u", "p">>, TwoDup)
FileBadJson == [JsonFile(<<"b", "a", "d">>, JNull) EXCEPT !.text = [kind |-> "invalid", data |-> JNull]]
FileTxt == [FileOne24 EXCEPT !.name = Name(<<"o", "n", "e">>, <<"t", "x", "t">>)]
FilePlain == [FileOne24 EXCEPT !.type = "text/plain"]

Files == {FileOne24, FileMalformed, FileShortOne, FileEmptied,
          FileMany51, FileTwoDup,
          FileBadJson, FileTxt, FilePlain}

----------------------------------------------------------------------------
(* sanitization.js RateLimiter, uploadRateLimiter = new RateLimiter() *)

maxAttempts == 10
timeWindow == 60000

\* this.attempts after the filter of canAttempt
PrunedAttempts == SelectSeq(attempts, LAMBDA time : now - time < timeWindow)

\* canAttempt admitting an attempt when maxAttempts are in the window
canAttemptInclusive == Len(PrunedAttempts) <= maxAttempts

\* the value canAttempt returns
canAttempt == Len(PrunedAttempts) < maxAttempts

----------------------------------------------------------------------------
(* browserSupport.js *)

\* the types of the warnings of checkPerformanceWarnings, performance.memory
\* not being available
checkPerformanceWarnings(fileSize, promptCount) ==
    (IF fileSize > 500 * 1024 THEN <<"LARGE_FILE">> ELSE <<>>)
    \o (IF promptCount > 500 THEN <<"MANY_PROMPTS">> ELSE <<>>)

----------------------------------------------------------------------------
(* fileHandlers.js handleFileUpload and App.jsx *)

\* the codes of the errors that are instances of ValidationError
ValidationCodes ==
    {"NO_FILE", "INVALID_FILE_TYPE", "FILE_TOO_LARGE", "EMPTY_FILE", "EMPTY_CONTENT",
     "WHITESPACE_ONLY", "INVALID_JSON", "INVALID_STRUCTURE", "NO_CATEGORIES",
     "TOO_MANY_CATEGORIES", "CATEGORY_ISSUES", "PROMPT_ISSUES", "INSUFFICIENT_PROMPTS",
     "TOO_MANY_PROMPTS", "DUPLICATE_PROMPTS"}

\* the members of the error thrown under a code: a ValidationError, the one
\* handleFileUploadWrapper builds under UPLOAD_ERROR included, has a message, a
\* code and details that hold a suggestion; the Error of the rate limit and
\* those of generateBoard have a message only
ErrorMembers(code) ==
    IF code \in ValidationCodes \cup {"UPLOAD_ERROR"}
    THEN {"name", "message", "code", "details", "suggestion"}
    ELSE {"name", "message"}

\* the promise of handleFileUpload rejected with an error of this code
Rejected(file, free, code) ==
    [NoUpload EXCEPT !.phase = "rejected", !.file = file, !.free = free, !.code = code]

\* Controls.handleFileChange, handleFileUploadWrapper and handleFileUpload up
\* to the await of file.text()
UploadStart(file) ==
    /\ gen.pc = "idle"
    /\ upload.phase = "none"
    /\ ~isLoading
    /\ IF file.type # "application/json"
       THEN UNCHANGED vars
       ELSE /\ IF ~canAttempt
               THEN /\ attempts' = PrunedAttempts
                    /\ recorded' = recorded
                    /\ upload' = Rejected(file, includeFreeSpace, "RATE_LIMITED")
                    /\ isLoading' = FALSE
               ELSE /\ attempts' = Append(PrunedAttempts, now)
                    /\ recorded' = Append(recorded, now)
                    /\ IF validateFile(file) # "OK"
                       THEN /\ upload' = Rejected(file, includeFreeSpace, validateFile(file))
                            /\ isLoading' = FALSE
                       ELSE /\ upload' = [NoUpload EXCEPT
                                             !.phase = "reading",
                                             !.file = file,
                                             !.free = includeFreeSpace,
                                             !.warnings = checkPerformanceWarnings(file.size, 0)]
                            /\ isLoading' = TRUE
            /\ UNCHANGED <<prompts, boardTiles, originalFileName, boardStats,
                           includeFreeSpace, warnings, error, now, gen, headerText, call>>

\* FirstFailure going on to generateBoard after validatePromptsData threw
FirstFailureIgnoringValidation(parseCode, validationCode, generatorCode) ==
    IF parseCode # "OK" THEN parseCode ELSE generatorCode

\* the error that ends steps 3 to 7 of handleFileUpload: that of the first of
\* validateAndParseJSON, validatePromptsData and generateBoard to throw
FirstFailure(parseCode, validationCode, generatorCode) ==
    IF parseCode # "OK" THEN parseCode
    ELSE IF validationCode # "OK" THEN validationCode
    ELSE generatorCode

\* handleFileUpload from the text of the file to the while loop of generateBoard
UploadRead ==
    /\ UNCHANGED <<recorded, headerText, call>>
    /\ gen.pc = "idle"
    /\ upload.phase = "reading"
    /\ LET parsed == validateAndParseJSON(upload.file.text)
           sanitizedData == sanitizePromptsData(parsed.data)
           validationResult == validatePromptsData(sanitizedData, TRUE, TRUE, upload.free)
           additionalWarnings ==
               checkPerformanceWarnings(upload.file.size, TotalPromptsOf(sanitizedData))
           code == FirstFailure(parsed.code, validationResult.code,
                                generatorValidatePromptsData(sanitizedData))
       IN  IF code # "OK"
           THEN /\ upload' = Rejected(upload.file, upload.free, code)
                /\ isLoading' = FALSE
                /\ gen' = gen
           ELSE /\ upload' = [upload EXCEPT
                                 !.phase = "generating",
                                 !.promptsData = sanitizedData,
                                 !.warnings = @ \o additionalWarnings
                                                \o validationResult.warnings]
                /\ isLoading' = TRUE
                /\ \E rnd \in RandValues :
                      gen' = GenLoop("upload", sanitizedData, upload.free, rnd)
    /\ UNCHANGED <<prompts, boardTiles, originalFileName, boardStats, includeFreeSpace,
                   warnings, error, attempts, now>>

\* handleFileUpload from the end of the while loop to its return
UploadReturn ==
    /\ UNCHANGED <<recorded, headerText, call>>
    /\ gen.pc = "loop"
    /\ gen.caller = "upload"
    /\ ~LoopCondition
    /\ \E rnd \in RandValues :
          upload' = [upload EXCEPT !.phase = "fulfilled",
                                   !.promptsData = gen.prompts,
                                   !.tiles = FinishBoard(gen.selected, gen.free, rnd)]
    /\ isLoading' = FALSE
    /\ gen' = GenIdle
    /\ UNCHANGED <<prompts, boardTiles, originalFileName, boardStats, includeFreeSpace,
                   warnings, error, attempts, now>>

\* SettledFileName with setOriginalFileName called whatever the outcome
SettledFileNameAlways(u) == u.file.name

\* the file name handleFileUploadWrapper leaves in originalFileName
SettledFileName(u) == IF u.phase = "fulfilled" THEN u.file.name ELSE originalFileName

\* the error handleFileUploadWrapper shows for a rejection
ShownError(code) == IF code \in ValidationCodes THEN code ELSE "UPLOAD_ERROR"

\* handleFileUploadWrapper after the await: the try block's rest or the catch
UploadSettle ==
    /\ UNCHANGED <<recorded, headerText, call>>
    /\ upload.phase \in {"fulfilled", "rejected"}
    /\ IF upload.phase = "fulfilled"
       THEN /\ prompts' = [loaded |-> TRUE, data |-> upload.promptsData]
            /\ boardTiles' = upload.tiles
            /\ boardStats' = updateBoardStats(upload.promptsData, 1)
            /\ warnings' = upload.warnings
            /\ error' = error
       ELSE /\ warnings' = <<>>
            /\ error' = ShownError(upload.code)
            /\ UNCHANGED <<prompts, boardTiles, boardStats>>
    /\ originalFileName' = SettledFileName(upload)
    /\ upload' = NoUpload
    /\ UNCHANGED <<includeFreeSpace, isLoading, attempts, now, gen>>

\* onFreeSpaceToggle and the effect on includeFreeSpace up to the while loop
Toggle ==
    /\ UNCHANGED <<recorded, headerText, call>>
    /\ gen.pc = "idle"
    /\ upload.phase \in {"none", "reading"}
    /\ includeFreeSpace' = ~includeFreeSpace
    /\ IF prompts.loaded /\ Len(boardTiles) > 0
       THEN IF generatorValidatePromptsData(prompts.data) # "OK"
            THEN /\ error' = generatorValidatePromptsData(prompts.data)
                 /\ gen' = gen
            ELSE /\ error' = error
                 /\ \E rnd \in RandValues :
                       gen' = GenLoop("toggle", prompts.data, ~includeFreeSpace, rnd)
       ELSE UNCHANGED <<error, gen>>
    /\ UNCHANGED <<prompts, boardTiles, originalFileName, boardStats, warnings,
                   isLoading, attempts, now, upload>>

\* the effect on includeFreeSpace from the end of the while loop on
ToggleReturn ==
    /\ UNCHANGED <<recorded, headerText, call>>
    /\ gen.pc = "loop"
    /\ gen.caller = "toggle"
    /\ ~LoopCondition
    /\ \E rnd \in RandValues :
          boardTiles' = FinishBoard(gen.selected, gen.free, rnd)
    /\ boardStats' = updateBoardStats(prompts.data, boardStats.version)
    /\ prompts' = [prompts EXCEPT !.data = gen.prompts]
    /\ gen' = GenIdle
    /\ UNCHANGED <<originalFileName, includeFreeSpace, warnings, isLoading,
                   error, attempts, now, upload>>

\* newVersion left at the version displayed
newVersionKept(version) == version

\* handleRecreate: newVersion = boardState.boardStats.version + 1
newVersion(version) == version + 1

\* Recreate recording an attempt with the rate limiter before it generates
RecreateRecorded ==
    /\ UNCHANGED <<headerText, call>>
    /\ gen.pc = "idle"
    /\ upload.phase = "none"
    /\ ~isLoading
    /\ Len(boardTiles) > 0
    /\ boardStats.version < MaxVersion
    /\ prompts.loaded
    /\ generatorValidatePromptsData(prompts.data) = "OK"
    /\ attempts' = Append(attempts, now)
    /\ recorded' = Append(recorded, now)
    /\ isLoading' = TRUE
    /\ \E rnd \in RandValues :
          gen' = GenLoop("recreate", prompts.data, includeFreeSpace, rnd)
    /\ UNCHANGED <<prompts, boardTiles, originalFileName, boardStats, includeFreeSpace,
                   warnings, error, now, upload>>

\* handleRecreate up to the while loop; the button is disabled while loading
\* and while no board is displayed
Recreate ==
    /\ UNCHANGED <<recorded, headerText, call>>
    /\ gen.pc = "idle"
    /\ upload.phase = "none"
    /\ ~isLoading
    /\ Len(boardTiles) > 0
    /\ boardStats.version < MaxVersion
    /\ IF ~prompts.loaded
       THEN /\ error' = "No prompts loaded. Please upload a JSON file first."
            /\ UNCHANGED <<isLoading, gen>>
       ELSE IF generatorValidatePromptsData(prompts.data) # "OK"
       THEN /\ error' = generatorValidatePromptsData(prompts.data)
            /\ UNCHANGED <<isLoading, gen>>
       ELSE /\ error' = error
            /\ isLoading' = TRUE
            /\ \E rnd \in RandValues :
                  gen' = GenLoop("recreate", prompts.data, includeFreeSpace, rnd)
    /\ UNCHANGED <<prompts, boardTiles, originalFileName, boardStats, includeFreeSpace,
                   warnings, attempts, now, upload>>

\* handleRecreate from the end of the while loop on
RecreateReturn ==
    /\ UNCHANGED <<recorded, headerText, call>>
    /\ gen.pc = "loop"
    /\ gen.caller = "recreate"
    /\ ~LoopCondition
    /\ \E rnd \in RandValues :
          boardTiles' = FinishBoard(gen.selected, gen.free, rnd)
    /\ boardStats' = updateBoardStats(prompts.data, newVersion(boardStats.version))
    /\ isLoading' = FALSE
    /\ prompts' = [prompts EXCEPT !.data = gen.prompts]
    /\ gen' = GenIdle
    /\ UNCHANGED <<originalFileName, includeFreeSpace, warnings, error,
                   attempts, now, upload>>

\* the timer of clearMessages
ClearMessages ==
    /\ UNCHANGED <<recorded, headerText, call>>
    /\ gen.pc = "idle"
    /\ upload.phase \in {"none", "reading"}
    /\ error # ""
    /\ error' = ""
    /\ UNCHANGED <<prompts, boardTiles, originalFileName, boardStats, includeFreeSpace,
                   warnings, isLoading, attempts, now, upload, gen>>

Next ==
    \/ \E file \in Files : Len(recorded) < MaxUploads /\ UploadStart(file)
    \/ UploadRead
    \/ UploadReturn
    \/ UploadSettle
    \/ Toggle
    \/ ToggleReturn
    \/ Recreate
    \/ RecreateReturn
    \/ Backfill
    \/ ClearMessages

Spec == Init /\ [][Next]_vars

----------------------------------------------------------------------------
(* The rate limiter under a running clock *)

\* the amounts of time that pass between two events
TickSteps == {timeWindow \div 2, timeWindow - 1, timeWindow}

\* Date.now() grows by d milliseconds
Tick(d) ==
    /\ now + d <= MaxTicks * timeWindow
    /\ now' = now + d
    /\ UNCHANGED <<prompts, boardTiles, originalFileName, boardStats, includeFreeSpace,
                   warnings, isLoading, error, attempts, upload, gen,
                   recorded, headerText, call>>

\* uploads of a file validateFile rejects, and the clock
NextRate ==
    \/ UploadStart(FileTxt)
    \/ UploadSettle
    \/ \E d \in TickSteps : Tick(d)

SpecRate == Init /\ [][NextRate]_vars

----------------------------------------------------------------------------
(* The methods of the RateLimiter called on their own *)

\* Math.min(...this.attempts) of a list that is not empty
oldestAttempt ==
    CHOOSE t \in {attempts[i] : i \in 1..Len(attempts)} :
        \A i \in 1..Len(attempts) : t <= attempts[i]

\* the value getRemainingTime returns
getRemainingTime ==
    IF Len(attempts) = 0 THEN 0
    ELSE Max(0, timeWindow - (now - oldestAttempt))

\* the last method called on the limiter and what it returned
LimiterCall(fn, allowed, remaining) ==
    [fn |-> fn, allowed |-> allowed, remaining |-> remaining]

InitLimiter ==
    /\ recorded = <<>>
    /\ headerText = DEFAULT_HEADER_TEXT
    /\ call = LimiterCall("none", TRUE, 0)
    /\ prompts = NullPrompts
    /\ includeFreeSpace = TRUE
    /\ boardTiles = <<>>
    /\ originalFileName = <<>>
    /\ boardStats = INITIAL_BOARD_STATS
    /\ warnings = <<>>
    /\ isLoading = FALSE
    /\ error = ""
    /\ attempts = <<>>
    /\ now = 0
    /\ upload = NoUpload
    /\ gen = GenIdle

\* uploadRateLimiter.canAttempt()
CanAttemptCall ==
    /\ attempts' = PrunedAttempts
    /\ call' = LimiterCall("canAttempt", canAttempt, 0)
    /\ UNCHANGED <<prompts, boardTiles, originalFileName, boardStats, includeFreeSpace,
                   warnings, isLoading, error, now, upload, gen, recorded, headerText>>

\* uploadRateLimiter.recordAttempt()
RecordAttemptCall ==
    /\ Len(recorded) < MaxUploads
    /\ attempts' = Append(attempts, now)
    /\ recorded' = Append(recorded, now)
    /\ call' = LimiterCall("recordAttempt", TRUE, 0)
    /\ UNCHANGED <<prompts, boardTiles, originalFileName, boardStats, includeFreeSpace,
                   warnings, isLoading, error, now, upload, gen, headerText>>

\* uploadRateLimiter.getRemainingTime()
GetRemainingTimeCall ==
    /\ call' = LimiterCall("getRemainingTime", TRUE, getRemainingTime)
    /\ UNCHANGED <<prompts, boardTiles, originalFileName, boardStats, includeFreeSpace,
                   warnings, isLoading, error, attempts, now, upload, gen, recorded,
                   headerText>>

NextLimiter ==
    \/ CanAttemptCall
    \/ RecordAttemptCall
    \/ GetRemainingTimeCall
    \/ \E d \in TickSteps : Tick(d)

SpecLimiter == InitLimiter /\ [][NextLimiter]_vars

----------------------------------------------------------------------------
(* validatePromptsStructure called on its own *)

\* the prompt text made of "q" and a four-digit number
Q(n) ==
    JStr(<<"q", Digits[((n \div 1000) % 10) + 1], Digits[((n \div 100) % 10) + 1],
           Digits[((n \div 10) % 10) + 1], Digits[(n % 10) + 1]>>)

\* a text of n letters
Filler(n) == [i \in 1..n |-> "x"]

\* a text with a blank before and after it
Padded(text) == <<" ">> \o text \o <<" ">>

\* count prompts of two characters
Hi(count) == [i \in 1..count |-> JStr(<<"h", "i">>)]

\* one category of the given name holding good well-formed prompts and then
\* extras, followed by empties categories that hold no prompt
Shaped(name, good, extras, empties) ==
    JObj(<<[k |-> name, v |-> JArr([i \in 1..good |-> Q(i - 1)] \o extras)]>>
         \o [c \in 1..empties |-> [k |-> <<"e", Letters[c]>>, v |-> JArr(<<>>)]])

\* category names at and around the limits
ShapeNames ==
    {<<"a">>, <<" ">>, Filler(MAX_CATEGORY_NAME_LENGTH), Filler(MAX_CATEGORY_NAME_LENGTH + 1),
     Padded(Filler(MAX_CATEGORY_NAME_LENGTH - 2)), Padded(Filler(MAX_CATEGORY_NAME_LENGTH - 1))}

\* prompts at and around the limits, bare and padded with blanks
ShapePrompts ==
    {JStr(<<"o", "k", "!">>), JStr(<<"h", "i">>), JStr(<<" ", "a", " ">>),
     JStr(Padded(<<"a", "b", "c">>)), JStr(<<" ", " ", " ">>), JNum,
     JStr(Filler(MAX_PROMPT_LENGTH)), JStr(Filler(MAX_PROMPT_LENGTH + 1)),
     JStr(Padded(Filler(MAX_PROMPT_LENGTH - 1))), JStr(Padded(Filler(MAX_PROMPT_LENGTH)))}

\* the catalogs validatePromptsStructure is called with
ShapeCatalogs ==
    {Shaped(<<"a">>, MIN_PROMPTS, Hi(k), e) : k \in 0..12, e \in 0..12}
    \cup {Shaped(name, MIN_PROMPTS, <<x>>, 0) : name \in ShapeNames, x \in ShapePrompts}
    \cup {Shaped(<<"a">>, good, Hi(k), e) :
              good \in {MIN_PROMPTS - 1, MIN_PROMPTS, MAX_PROMPTS, MAX_PROMPTS + 1},
              k \in 0..1, e \in 0..1}
    \cup {Singles(MAX_CATEGORIES), Many51, JArr(<<>>), JObj(<<>>), JNull}

InitShape ==
    /\ prompts = NullPrompts
    /\ includeFreeSpace = TRUE
    /\ boardTiles = <<>>
    /\ originalFileName = <<>>
    /\ boardStats = INITIAL_BOARD_STATS
    /\ warnings = <<>>
    /\ isLoading = FALSE
    /\ error = ""
    /\ attempts = <<>>
    /\ now = 0
    /\ upload = NoUpload
    /\ gen = GenIdle
    /\ recorded = <<>>
    /\ headerText = DEFAULT_HEADER_TEXT
    /\ \E data \in ShapeCatalogs :
          call = [fn |-> "validatePromptsStructure", data |-> data, done |-> FALSE]

\* validatePromptsStructure(data) from its call to its return or throw
ValidateCall ==
    /\ call.fn = "validatePromptsStructure"
    /\ ~call.done
    /\ call' = [fn |-> call.fn, data |-> call.data, done |-> TRUE,
                result |-> validatePromptsStructure(call.data)]
    /\ UNCHANGED <<prompts, boardTiles, originalFileName, boardStats, includeFreeSpace,
                   warnings, isLoading, error, attempts, now, upload, gen,
                   recorded, headerText>>

NextShape == ValidateCall

SpecShape == InitShape /\ [][NextShape]_vars

----------------------------------------------------------------------------
(* sanitizeText called on its own *)

\* the characters of the texts: the two angle brackets, a blank, a letter, a
\* formatting character, an emoji and a control character
TextChars == {"<", ">", " ", "a", "*", "\\u2600", "\\x01"}

\* the texts of n characters
TextsOfLength(n) == [1..n -> TextChars]

\* the values sanitizeText is called with: texts up to MaxTextLen characters
\* and a value that is not a string
Texts == {JStr(text) : text \in UNION {TextsOfLength(n) : n \in 0..MaxTextLen}} \cup {JNum}

\* the values of options.maxLength
MaxLengths == {0, 5, 11}

InitText ==
    /\ prompts = NullPrompts
    /\ includeFreeSpace = TRUE
    /\ boardTiles = <<>>
    /\ originalFileName = <<>>
    /\ boardStats = INITIAL_BOARD_STATS
    /\ warnings = <<>>
    /\ isLoading = FALSE
    /\ error = ""
    /\ attempts = <<>>
    /\ now = 0
    /\ upload = NoUpload
    /\ gen = GenIdle
    /\ recorded = <<>>
    /\ headerText = DEFAULT_HEADER_TEXT
    /\ \E text \in Texts, maxLength \in MaxLengths,
          allowEmojis \in BOOLEAN, allowBasicFormatting \in BOOLEAN,
          trimWhitespace \in BOOLEAN :
          call = [fn |-> "sanitizeText", text |-> text, maxLength |-> maxLength,
                  allowEmojis |-> allowEmojis,
                  allowBasicFormatting |-> allowBasicFormatting,
                  trimWhitespace |-> trimWhitespace, done |-> FALSE, result |-> <<>>]

\* sanitizeText(text, options) from its call to its return
SanitizeCall ==
    /\ call.fn = "sanitizeText"
    /\ ~call.done
    /\ call' = [call EXCEPT
                    !.done = TRUE,
                    !.result = sanitizeText(call.text, call.maxLength, call.allowEmojis,
                                            call.allowBasicFormatting, call.trimWhitespace)]
    /\ UNCHANGED <<prompts, boardTiles, originalFileName, boardStats, includeFreeSpace,
                   warnings, isLoading, error, attempts, now, upload, gen,
                   recorded, headerText>>

NextText == SanitizeCall

SpecText == InitText /\ [][NextText]_vars

----------------------------------------------------------------------------
(* useHeaderState and the header inputs of Controls *)

\* the fields of the header
HeaderFields == {"title", "instructions", "subtitle"}

\* what the user leaves in an input: nothing, a word, markup, 101 and 201 letters
HeaderInputs == {<<>>, <<"H", "i">>, <<"<", "b", ">">>, Filler(101), Filler(201)}

\* onChange of a header input: updateHeaderText(field, e.target.value)
UpdateHeaderText(field, value) ==
    /\ headerText' = [headerText EXCEPT ![field] = value]
    /\ UNCHANGED <<prompts, boardTiles, originalFileName, boardStats, includeFreeSpace,
                   warnings, isLoading, error, attempts, now, upload, gen,
                   recorded, call>>

NextHeader == \E field \in HeaderFields, value \in HeaderInputs : UpdateHeaderText(field, value)

SpecHeader == Init /\ [][NextHeader]_vars

----------------------------------------------------------------------------
(* sanitizePromptsData called on its own *)

\* category names: two that sanitize to the same name, one that sanitizes to
\* another, one that sanitizes to the empty name
SanitizeNames == {<<"a">>, <<"a", " ">>, <<"b">>, <<" ">>}

\* prompts: three that are kept, one of them with a space to trim, and one of
\* two characters
SanitizePrompts == {<<"a", "b", "c">>, <<"x", "y", "z", " ">>, <<"a", "b", "d">>, <<"h", "i">>}

\* the arrays of one or two of these prompts
SanitizeArrays ==
    {<<JStr(p)>> : p \in SanitizePrompts}
        \cup {<<JStr(p), JStr(q)>> : p \in SanitizePrompts, q \in {<<"a", "b", "c">>, <<"h", "i">>}}

\* the catalogs of two categories of distinct names
SanitizeCatalogs ==
    {JObj(<<[k |-> n1, v |-> JArr(a1)], [k |-> n2, v |-> JArr(a2)]>>) :
        n1 \in SanitizeNames, n2 \in SanitizeNames \ {<<"a">>},
        a1 \in SanitizeArrays, a2 \in {<<JStr(<<"a", "b", "d">>)>>, <<JStr(<<"h", "i">>)>>}}

InitSanitize ==
    /\ prompts = NullPrompts
    /\ includeFreeSpace = TRUE
    /\ boardTiles = <<>>
    /\ originalFileName = <<>>
    /\ boardStats = INITIAL_BOARD_STATS
    /\ warnings = <<>>
    /\ isLoading = FALSE
    /\ error = ""
    /\ attempts = <<>>
    /\ now = 0
    /\ upload = NoUpload
    /\ gen = GenIdle
    /\ recorded = <<>>
    /\ headerText = DEFAULT_HEADER_TEXT
    /\ \E raw \in SanitizeCatalogs :
          /\ Entries(raw)[1].k # Entries(raw)[2].k
          /\ call = [fn |-> "sanitizePromptsData", data |-> raw,
                     done |-> FALSE, result |-> JObj(<<>>)]

\* sanitizePromptsData(data) from call to return
SanitizeDataCall ==
    /\ call.fn = "sanitizePromptsData"
    /\ ~call.done
    /\ call' = [call EXCEPT !.done = TRUE, !.result = sanitizePromptsData(call.data)]
    /\ UNCHANGED <<prompts, boardTiles, originalFileName, boardStats, includeFreeSpace,
                   warnings, isLoading, error, attempts, now, upload, gen,
                   recorded, headerText>>

NextSanitize == SanitizeDataCall

SpecSanitize == InitSanitize /\ [][NextSanitize]_vars

----------------------------------------------------------------------------
(* fileHandlers.js generatePdfFilename called on its own *)

\* String.prototype.replace(pattern, replacement) for a string pattern: the
\* first occurrence only
ReplaceFirst(s, pattern, replacement) ==
    LET found == {i \in 1..(Len(s) - Len(pattern) + 1) :
                     SubSeq(s, i, i + Len(pattern) - 1) = pattern}
        first == CHOOSE i \in found : \A j \in found : i <= j
    IN  IF found = {} THEN s
        ELSE SubSeq(s, 1, first - 1) \o replacement \o SubSeq(s, first + Len(pattern), Len(s))

\* the name used when no file was uploaded
FallbackFileName ==
    <<"P", "r", "i", "c", "e", "l", "i", "n", "e", "-", "S", "u", "m", "m", "e", "r", "-",
      "P", "a", "r", "t", "y", "-", "B", "i", "n", "g", "o">>

\* fileName is the parameter originalFileName; timestamp stands for
\* new Date().toISOString().slice(0, 10)
generatePdfFilename(fileName, version, isPreview, timestamp) ==
    LET baseFileName == IF fileName # <<>>
                        THEN ReplaceFirst(fileName, DotJson, <<>>)
                        ELSE FallbackFileName
        versionSuffix == IF version > 1 THEN <<"-", "v">> \o IndexKey(version) ELSE <<>>
        previewSuffix == IF isPreview
                         THEN <<"-", "p", "r", "e", "v", "i", "e", "w">> ELSE <<>>
    IN  baseFileName \o versionSuffix \o previewSuffix \o <<"-">> \o timestamp

\* the day of the export
Today == <<"2", "0", "2", "6", "-", "1", "1", "-", "0", "4">>

\* originalFileName: none, and names with .json in lower and upper case, twice,
\* in the middle, alone, and a name the validator refuses
ExportNames ==
    {<<>>,
     <<"a">> \o DotJson,
     <<"A">> \o DotJson,
     <<"a", ".", "J", "S", "O", "N">>,
     <<"a", ".", "J", "s", "o", "n">>,
     <<"a">> \o DotJson \o DotJson,
     <<"a">> \o DotJson \o <<".", "b">> \o DotJson,
     <<"a", ".", "b">> \o DotJson,
     DotJson,
     <<"a", ".", "t", "x", "t">>}

InitName ==
    /\ prompts = NullPrompts
    /\ includeFreeSpace = TRUE
    /\ boardTiles = <<>>
    /\ originalFileName = <<>>
    /\ boardStats = INITIAL_BOARD_STATS
    /\ warnings = <<>>
    /\ isLoading = FALSE
    /\ error = ""
    /\ attempts = <<>>
    /\ now = 0
    /\ upload = NoUpload
    /\ gen = GenIdle
    /\ recorded = <<>>
    /\ headerText = DEFAULT_HEADER_TEXT
    /\ \E name \in ExportNames, version \in 1..(MaxVersion + 1), isPreview \in BOOLEAN :
          call = [fn |-> "generatePdfFilename", originalFileName |-> name,
                  version |-> version, isPreview |-> isPreview,
                  done |-> FALSE, result |-> <<>>]

\* generatePdfFilename(originalFileName, version, isPreview) from call to return
NameCall ==
    /\ call.fn = "generatePdfFilename"
    /\ ~call.done
    /\ call' = [call EXCEPT
                    !.done = TRUE,
                    !.result = generatePdfFilename(call.originalFileName, call.version,
                                                   call.isPreview, Today)]
    /\ UNCHANGED <<prompts, boardTiles, originalFileName, boardStats, includeFreeSpace,
                   warnings, isLoading, error, attempts, now, upload, gen,
                   recorded, headerText>>

NextName == NameCall

SpecName == InitName /\ [][NextName]_vars

----------------------------------------------------------------------------
(* Notions the properties use *)

\* the prompt values of the index-th category (0-based)
CategoryValues(data, index) ==
    {CategoryPrompts(data, index)[j] : j \in 1..Len(CategoryPrompts(data, index))}

\* the prompt values of the index-th category (0-based) in insertion order
InsertedValues(data, index) ==
    {data.v[index + 1].v.v[j].v : j \in 1..Len(data.v[index + 1].v.v)}

\* the prompt values of a catalog
CatalogValues(data) ==
    UNION {CategoryValues(data, index) : index \in 0..(Len(Entries(data)) - 1)}

\* no prompt value occurs twice in the catalog
NoRepeats(data) == Cardinality(CatalogValues(data)) = TotalPromptsOf(data)

\* all categories have the same number of prompts
EquallySized(data) ==
    \A i, j \in 1..Len(Entries(data)) :
        Len(Entries(data)[i].v.v) = Len(Entries(data)[j].v.v)

\* the share the distribution rule gives the index-th of n categories
Share(index, n, needed) ==
    (needed \div n) + (IF index < needed % n THEN 1 ELSE 0)

\* number of prompts the rule gives the categories before the index-th
RECURSIVE ShareBefore(_, _, _)
ShareBefore(index, n, needed) ==
    IF index = 0 THEN 0
    ELSE ShareBefore(index - 1, n, needed) + Share(index - 1, n, needed)

\* number of cells of tiles, other than the centre when free, that hold text
CountIn(tiles, free, text) ==
    Cardinality({i \in 1..Len(tiles) :
                    /\ tiles[i] = text
                    /\ ~(free /\ i = FreeSpaceIndex + 1)})

\* number of entries of a list that hold text
CountOf(list, text) == Cardinality({i \in 1..Len(list) : list[i] = text})

\* the while loop can never add a prompt: every category is used up
Stuck ==
    /\ gen.pc = "loop"
    /\ LoopCondition
    /\ \A index \in 0..(Len(Entries(gen.prompts)) - 1) :
          Len(availablePrompts(gen.prompts, index, gen.selected)) = 0

\* a step in which generateBoard, called on its own, returns
Returns == gen.pc = "loop" /\ gen.caller = "direct" /\ gen'.pc = "idle"

----------------------------------------------------------------------------
(* Properties of generateBoard *)

C2_NoDuplicateTiles ==
    validatePromptsStructure(prompts.data).code = "OK" =>
        \A i, j \in 1..Len(boardTiles) :
            (i # j /\ boardTiles[i] = boardTiles[j]) => boardTiles[i] = FREE_SPACE

\* C4: for a catalog that validation accepts, the while loop of generateBoard
\* never reaches a state from which it cannot end: short of needed prompts
\* with no prompt left to add in any category.
C4_LoopEnds ==
    (gen.pc = "loop" /\ validatePromptsStructure(gen.prompts).code = "OK") => ~Stuck

\* C5: for equally-sized categories of distinct prompts, at least needed in all, the
\* forEach leaves exactly needed prompts, those of the index-th category in
\* insertion order being floor(needed/N) (+1 if index < needed mod N) in
\* number, and the returned layout holds exactly these prompts.
C5_Distribution ==
    [][/\ (gen.pc = "idle" /\ gen'.pc = "loop" /\ EquallySized(gen'.prompts)
           /\ NoRepeats(gen'.prompts)
           /\ TotalPromptsOf(gen'.prompts) >= totalTilesNeeded(gen'.free)) =>
             LET n == Len(gen'.prompts.v)
                 needed == totalTilesNeeded(gen'.free)
             IN  /\ Len(gen'.selected) = needed
                 /\ \A index \in 0..(n - 1) :
                       Cardinality({m \in 1..needed :
                                       gen'.selected[m] \in InsertedValues(gen'.prompts, index)})
                           = Share(index, n, needed)
       /\ (Returns /\ EquallySized(gen.prompts)
           /\ TotalPromptsOf(gen.prompts) >= totalTilesNeeded(gen.free)) =>
             \A text \in CatalogValues(gen.prompts) :
                 CountIn(boardTiles', gen.free, text) = CountOf(gen.selected, text)
      ]_vars

\* the same distribution with the categories counted in the order of
\* Object.keys: the index-th key's prompts fill the index-th share of the
\* selection
DistributionInKeysOrder ==
    [][(gen.pc = "idle" /\ gen'.pc = "loop" /\ EquallySized(gen'.prompts)
        /\ TotalPromptsOf(gen'.prompts) >= totalTilesNeeded(gen'.free)) =>
          LET n == Len(Entries(gen'.prompts))
              needed == totalTilesNeeded(gen'.free)
          IN  /\ Len(gen'.selected) = needed
              /\ \A index \in 0..(n - 1) :
                    \A m \in 1..Share(index, n, needed) :
                        gen'.selected[ShareBefore(index, n, needed) + m]
                            \in CategoryValues(gen'.prompts, index)
      ]_vars

\* C6 as stated: the layout returned for a catalog that validation accepts
\* holds a prompt of every category.
C6_EveryCategory ==
    [][(Returns /\ validatePromptsStructure(gen.prompts).code = "OK") =>
          LET cells == {boardTiles'[i] : i \in 1..Len(boardTiles')}
          IN  \A index \in 0..(Len(Entries(gen.prompts)) - 1) :
                  CategoryValues(gen.prompts, index) \cap cells # {}
      ]_vars

\* C6 amended: the layout returned for an accepted catalog of at most needed
\* categories holds a prompt of every category.
C6_EveryCategoryUpToNeeded ==
    [][(Returns /\ validatePromptsStructure(gen.prompts).code = "OK"
        /\ Len(Entries(gen.prompts)) <= totalTilesNeeded(gen.free)) =>
          LET cells == {boardTiles'[i] : i \in 1..Len(boardTiles')}
          IN  \A index \in 0..(Len(Entries(gen.prompts)) - 1) :
                  CategoryValues(gen.prompts, index) \cap cells # {}
      ]_vars

\* a layout of 25 categories without free space: one cell per category
C6_Witness ==
    /\ gen.pc = "idle"
    /\ Len(boardTiles) = 25
    /\ ~includeFreeSpace
    /\ Len(Entries(prompts.data)) = 25
    /\ \A index \in 0..24 :
          \E i \in 1..25 : boardTiles[i] \in CategoryValues(prompts.data, index)

----------------------------------------------------------------------------
(* Properties of the session *)

\* the errors generateBoard throws and the one handleRecreate shows without prompts
RegenerationErrors ==
    {"Invalid JSON: Must be an object with categories",
     "Invalid JSON: Must contain at least one category",
     "Invalid JSON: Category must be an array",
     "Invalid JSON: Category cannot be empty",
     "Insufficient prompts: Need at least 24 prompts total",
     "No prompts loaded. Please upload a JSON file first."}

\* C3: a catalog with fewer prompts than needed (24 with free space, 25
\* without) is rejected by upload validation and by generateBoard: an upload
\* never brings generateBoard past its validation with such a catalog.
C3_RejectsBelowNeeded ==
    (gen.pc = "loop" /\ gen.caller = "upload") =>
        TotalPromptsOf(gen.prompts) >= totalTilesNeeded(gen.free)

\* C7: once a catalog is loaded, the generateBoard call of a recreate or of a
\* free-space toggle is never in a state from which it cannot return, no such
\* call shows an error, and a 25-cell layout is displayed.
C7_RegenerationCompletes ==
    /\ (gen.pc = "loop" /\ gen.caller \in {"recreate", "toggle"}) => ~Stuck
    /\ error \notin RegenerationErrors
    /\ (prompts.loaded /\ gen.pc = "idle") => Len(boardTiles) = 25

\* C8: the regeneration of each free-space toggle after an upload returns,
\* and the layout the toggle back on leaves has 25 cells with FREE_SPACE at
\* index 12.
C8_ToggleRoundTrip ==
    [][/\ (gen'.pc = "loop" /\ gen'.caller = "toggle") => ~Stuck'
       /\ (gen.caller = "toggle" /\ gen.free /\ gen'.pc = "idle") =>
             /\ Len(boardTiles') = 25
             /\ boardTiles'[FreeSpaceIndex + 1] = FREE_SPACE
      ]_vars

\* C9: a step of an upload that fails (the step that rejects it, and the step
\* in which the wrapper catches the rejection) leaves the stored catalog, the
\* displayed layout, the original file name and the version as they were.
C9_FailedUploadKeepsSession ==
    [][(upload'.phase = "rejected" \/ upload.phase = "rejected") =>
          /\ prompts' = prompts
          /\ boardTiles' = boardTiles
          /\ originalFileName' = originalFileName
          /\ boardStats'.version = boardStats.version
      ]_vars

\* a failed upload has been caught while the board of an earlier file is displayed
C9_Witness ==
    /\ upload.phase = "none"
    /\ error = "INSUFFICIENT_PROMPTS"
    /\ prompts.loaded
    /\ Len(boardTiles) = 25
    /\ originalFileName = FileOne24.name

\* C10: the content an upload sanitizes and hands to generateBoard has been
\* accepted by shape validation as parsed: a file with a malformed entry does
\* not get past validation.
C10_ValidatedBeforeSanitized ==
    upload.phase \in {"generating", "fulfilled"} =>
        validatePromptsStructure(upload.file.text.data).code = "OK"

\* C11: an upload that failed at a step has run no later step: its rejection
\* leaves generateBoard not called and no layout, the wrapper's catch is all
\* that follows it, and generateBoard is called for an upload only when the
\* file check, the parse and the catalog validation of that file all passed.
C11_FailureStopsUpload ==
    [][/\ upload'.phase = "rejected" =>
             (gen'.pc = "idle" /\ upload'.tiles = <<>> /\ boardTiles' = boardTiles)
       /\ upload.phase = "rejected" =>
             (upload'.phase = "none" /\ gen' = gen /\ boardTiles' = boardTiles)
       /\ (gen'.pc = "loop" /\ gen'.caller = "upload" /\ gen.pc = "idle") =>
             LET file == upload'.file
                 parsed == validateAndParseJSON(file.text)
                 sanitizedData == sanitizePromptsData(parsed.data)
             IN  /\ validateFile(file) = "OK"
                 /\ parsed.code = "OK"
                 /\ validatePromptsStructure(sanitizedData).code = "OK"
                 /\ gen'.prompts = sanitizedData
      ]_vars

\* uploads have been rejected by the file check, by the parse and by the
\* catalog validation, the last one being caught while generateBoard is idle
C11_Witness ==
    /\ upload.phase = "rejected"
    /\ upload.code = "TOO_MANY_CATEGORIES"
    /\ gen.pc = "idle"
    /\ Len(attempts) >= 3

\* the number of prompts of the array-valued categories of a parsed file
RawPromptCount(data) ==
    IF data.t # "object" THEN 0
    ELSE SumSeq([i \in 1..Len(data.v) |->
                    IF IsArray(data.v[i].v) THEN Len(data.v[i].v.v) ELSE 0])

\* C12: an upload whose file holds at least 24 prompts of which fewer than 24
\* are left by the sanitizer is rejected with INSUFFICIENT_PROMPTS and does
\* not reach generateBoard.
C12_TotalsCheckedAfterSanitizer ==
    [][(upload.phase = "reading" /\ upload'.phase # "reading"
        /\ RawPromptCount(upload.file.text.data) >= MIN_PROMPTS
        /\ TotalPromptsOf(sanitizePromptsData(upload.file.text.data)) < MIN_PROMPTS) =>
          /\ upload'.phase = "rejected"
          /\ upload'.code = "INSUFFICIENT_PROMPTS"
          /\ gen'.pc = "idle"
      ]_vars

\* the number of recorded attempts less than timeWindow old at time t
Young(t) == Cardinality({i \in 1..Len(recorded) : t - recorded[i] < timeWindow})

\* C13: an upload attempt passes the rate guard exactly when fewer than
\* maxAttempts of all attempts ever recorded are less than timeWindow old, an
\* attempt is recorded exactly when it passes, and so of any maxAttempts + 1
\* recorded attempts the last is at least timeWindow later than the first
C13_RateWindow ==
    [][/\ (upload.phase = "none" /\ upload'.phase # "none") =>
             /\ (upload'.code # "RATE_LIMITED") <=> (Young(now) < maxAttempts)
             /\ (upload'.code # "RATE_LIMITED") <=> (recorded' = Append(recorded, now))
       /\ \A i \in 1..(Len(recorded') - maxAttempts) :
             recorded'[i + maxAttempts] - recorded'[i] >= timeWindow
      ]_vars

\* an attempt refused after the window had reopened once
C13_Witness ==
    /\ upload.phase = "rejected"
    /\ upload.code = "RATE_LIMITED"
    /\ Len(recorded) > maxAttempts
    /\ Len(attempts) = maxAttempts

\* C14: an upload whose catalog repeats a prompt is never rejected for it and
\* its generateBoard call is never in a state from which it cannot return;
\* once generateBoard is reached the upload carries a DUPLICATE_PROMPTS warning.
C14_DuplicatesOnlyWarn ==
    /\ upload.code # "DUPLICATE_PROMPTS"
    /\ (upload.phase \in {"generating", "fulfilled"}
        /\ Len(findDuplicatePrompts(upload.promptsData)) > 0) =>
          /\ \E i \in 1..Len(upload.warnings) : upload.warnings[i] = "DUPLICATE_PROMPTS"
          /\ ~(gen.caller = "upload" /\ Stuck)

\* validatePromptsStructure has returned or thrown
Validated == call.fn = "validatePromptsStructure" /\ call.done

\* the categories of a catalog that violate a rule of their own
ViolatingCategories(data) ==
    {i \in 1..Len(data.v) :
        \/ Trim(data.v[i].k) = <<>>
        \/ Len(data.v[i].k) > MAX_CATEGORY_NAME_LENGTH
        \/ ~IsArray(data.v[i].v)
        \/ Len(data.v[i].v.v) = 0}

\* the prompts, as <<category, index>>, that are not strings of 3 to 200
\* characters, blanks at the ends counted
ViolatingPrompts(data) ==
    UNION {{<<c, i>> : i \in {i \in 1..Len(data.v[c].v.v) :
                                 PromptIssue(data.v[c].v.v[i]) # ""}} :
           c \in {c \in 1..Len(data.v) : IsArray(data.v[c].v)}}

\* C15: a CATEGORY_ISSUES or PROMPT_ISSUES error carries at most 10 issues and
\* a totalIssues that is the number of violating categories or prompts.
C15_IssuesCapped ==
    (Validated /\ call.result.code \in {"CATEGORY_ISSUES", "PROMPT_ISSUES"}) =>
        LET details == call.result.details
        IN  /\ Len(details.issues) <= 10
            /\ "totalIssues" \in DOMAIN details
            /\ details.totalIssues =
                  IF call.result.code = "CATEGORY_ISSUES"
                  THEN Cardinality(ViolatingCategories(call.data))
                  ELSE Cardinality(ViolatingPrompts(call.data))

\* the length of a prompt measured after trimming
TrimmedLength(prompt) == Len(Trim(prompt.v))

\* C16: validatePromptsStructure accepts a catalog only if every prompt is a
\* string whose length after trimming is 3 to 200 and every category name has
\* 1 to 50 characters.
C16_TrimmedLengths ==
    (Validated /\ call.result.code = "OK") =>
        \A c \in 1..Len(call.data.v) :
            /\ Len(call.data.v[c].k) \in 1..MAX_CATEGORY_NAME_LENGTH
            /\ \A i \in 1..Len(call.data.v[c].v.v) :
                  LET prompt == call.data.v[c].v.v[i]
                  IN  /\ prompt.t = "string"
                      /\ TrimmedLength(prompt) \in MIN_PROMPT_LENGTH..MAX_PROMPT_LENGTH

C18_NoAngleWithinLength ==
    (call.fn = "sanitizeText" /\ call.done) =>
        /\ \A i \in 1..Len(call.result) : call.result[i] \notin {"<", ">"}
        /\ Len(call.result) <= call.maxLength

\* a text with both angle brackets returned cut at a blank, shorter than maxLength
C18_Witness ==
    /\ call.fn = "sanitizeText"
    /\ call.done
    /\ \E i \in 1..Len(call.text.v) : call.text.v[i] = "<"
    /\ \E i \in 1..Len(call.text.v) : call.text.v[i] = ">"
    /\ call.maxLength = 11
    /\ Len(call.result) = 9

\* C19: the title and the subtitle of the header hold no < and no > and at
\* most 100 characters, the instructions at most 200, in every state of a
\* session.
C19_HeaderSanitized ==
    /\ \A i \in 1..Len(headerText.title) : headerText.title[i] \notin {"<", ">"}
    /\ \A i \in 1..Len(headerText.subtitle) : headerText.subtitle[i] \notin {"<", ">"}
    /\ Len(headerText.title) <= 100
    /\ Len(headerText.subtitle) <= 100
    /\ Len(headerText.instructions) <= 200

\* C20: the error a failed upload rejects with, and the error a failed
\* generateBoard call of a recreate or a toggle leaves, has a code, a message
\* and a suggestion.
C20_StructuredErrors ==
    /\ upload.phase = "rejected" =>
          {"code", "message", "suggestion"} \subseteq ErrorMembers(upload.code)
    /\ error # "" => {"code", "message", "suggestion"} \subseteq ErrorMembers(error)

\* C21: the grid rendered for a layout has 25 cells, cell i shows the free
\* space exactly when tiles[i] is FREE_SPACE and shows tiles[i] otherwise.
C21_RenderedAsGiven ==
    Len(boardTiles) > 0 =>
        LET cells == BingoBoard(boardTiles)
        IN  /\ Len(cells) = 25
            /\ \A n \in 1..25 :
                  /\ cells[n].freeSpace <=> (boardTiles[n] = FREE_SPACE)
                  /\ ~cells[n].freeSpace => cells[n].promptText = boardTiles[n]

\* C22: the version is 1 after the step that completes a successful upload,
\* one more than before after the step that completes a recreate, and
\* unchanged by every other step (toggles, failed uploads, failed recreates).
C22_VersionCounter ==
    [][IF upload.phase = "fulfilled" /\ upload'.phase = "none"
       THEN boardStats'.version = 1
       ELSE IF gen.pc = "loop" /\ gen.caller = "recreate" /\ gen'.pc = "idle"
       THEN boardStats'.version = boardStats.version + 1
       ELSE boardStats'.version = boardStats.version
      ]_vars

\* a failed upload after a successful recreate has left the version
C22_Witness ==
    /\ boardStats.version > 1
    /\ upload.phase = "none"
    /\ error \in ValidationCodes

\* a file name validateFile accepts: it ends in .json, in any case
AcceptedName(name) == EndsWith(ToLowerCase(name), DotJson)

\* C23: for no file or a file name the validator accepts, the export name is
\* the fallback name or the file name less its five-character extension,
\* then -vN exactly when N > 1, then -preview exactly when isPreview, then -
\* and the date.
C23_ExportName ==
    (call.fn = "generatePdfFilename" /\ call.done
     /\ (call.originalFileName = <<>> \/ AcceptedName(call.originalFileName))) =>
        LET name == call.originalFileName
            baseName == IF name = <<>> THEN FallbackFileName
                        ELSE SubSeq(name, 1, Len(name) - Len(DotJson))
        IN  call.result =
                baseName
                \o (IF call.version > 1 THEN <<"-", "v">> \o IndexKey(call.version) ELSE <<>>)
                \o (IF call.isPreview THEN <<"-", "p", "r", "e", "v", "i", "e", "w">> ELSE <<>>)
                \o <<"-">> \o Today


\* C24: generateBoard never mutates the catalog it is given: while a call runs
\* and after it has returned, whatever the flag and however many calls were
\* made before, every category of the catalog holds the same prompts in the
\* same order as when the call was made.
C24_CatalogNotMutated ==
    [][/\ prompts' = prompts
       /\ gen'.pc = "loop" => gen'.prompts = prompts.data]_vars

\* a second call is running after a first one has returned a board, on a
\* catalog whose first category shuffleArray returns in another order
C24_Witness ==
    /\ Len(boardTiles) = 25
    /\ gen.pc = "loop"
    /\ gen.caller = "direct"
    /\ \E rnd \in RandValues :
          shuffleArray(CategoryPrompts(prompts.data, 0), rnd)
              # CategoryPrompts(prompts.data, 0)


\* a step of the free-space toggle or of a recreate: the setting changes, or
\* the generator is entered, runs or returns on their behalf
ToggleOrRecreateStep ==
    \/ includeFreeSpace' # includeFreeSpace
    \/ gen.caller \in {"toggle", "recreate"}
    \/ gen'.caller \in {"toggle", "recreate"}

\* C25: recreate and the free-space toggle invoke only the board generator, on
\* the stored catalog as it is: every step of theirs leaves the stored
\* catalog, the original file name and the rate limiter's recorded attempts
\* unchanged, and the catalog the generator works on is the stored one.
C25_RegenerateOnly ==
    [][ToggleOrRecreateStep =>
          /\ prompts' = prompts
          /\ originalFileName' = originalFileName
          /\ attempts' = attempts
          /\ recorded' = recorded
          /\ gen'.pc = "loop" => gen'.prompts = prompts.data]_vars

\* a toggle's generator call is running on an uploaded catalog after a
\* recreate has returned
C25_Witness ==
    /\ gen.pc = "loop"
    /\ gen.caller = "toggle"
    /\ boardStats.version > 1
    /\ prompts.loaded
    /\ originalFileName # <<>>
    /\ Len(recorded) > 0


\* the attempts of the list that are still inside the window
InsideWindow ==
    {attempts[i] : i \in {j \in 1..Len(attempts) : now - attempts[j] < timeWindow}}

\* timeWindow - (now - t) for the oldest attempt t still inside the window,
\* 0 when there is none
RemainingOfWindow ==
    IF InsideWindow = {} THEN 0
    ELSE timeWindow - (now - (CHOOSE t \in InsideWindow : \A u \in InsideWindow : t <= u))

\* C26: canAttempt() is a pure query: a call leaves the tracked attempt list
\* unchanged, so that getRemainingTime() at the same clock value returns the
\* same before and after the call; only recordAttempt() changes the list.
C26_CanAttemptPure ==
    [][/\ CanAttemptCall => (attempts' = attempts /\ getRemainingTime' = getRemainingTime)
       /\ attempts' # attempts => RecordAttemptCall]_vars

\* C27: in every state of the rate limiter getRemainingTime() returns
\* timeWindow - (now - t) for the oldest recorded attempt t still inside the
\* window, and 0 when there is none, whether or not canAttempt() was called
\* before it.
C27_RemainingTime ==
    [][GetRemainingTimeCall => call'.remaining = RemainingOfWindow]_vars


RECURSIVE IsSubsequence(_, _)
\* the elements of s occur in t in the order they have in s
IsSubsequence(s, t) ==
    IF s = <<>> THEN TRUE
    ELSE IF t = <<>> THEN FALSE
    ELSE IF Head(s) = Head(t) THEN IsSubsequence(Tail(s), Tail(t))
    ELSE IsSubsequence(s, Tail(t))

\* the sanitized prompts of at least 3 characters of a category of the input
KeptPrompts(e) ==
    SelectSeq([i \in 1..Len(e.v.v) |-> sanitizePromptText(e.v.v[i])],
              LAMBDA p : Len(p) >= 3)

\* the prompts the output holds under a name, none when it has no such category
OutputUnder(result, name) ==
    LET members == SelectSeq(result.v, LAMBDA m : m.k = name)
    IN  IF members = <<>> THEN <<>>
        ELSE [i \in 1..Len(members[1].v.v) |-> members[1].v.v[i].v]

\* C28: sanitizePromptsData removes only the prompts that sanitize to fewer
\* than 3 characters and the categories whose sanitized name is empty: every
\* other prompt of the input is in the output under the sanitized name of its
\* category, in the original relative order, also when two distinct category
\* names sanitize to the same name.
C28_OnlyShortRemoved ==
    (call.fn = "sanitizePromptsData" /\ call.done) =>
        \A i \in 1..Len(Entries(call.data)) :
            LET e == Entries(call.data)[i]
            IN  sanitizeCategoryName(e.k) # <<>> =>
                    IsSubsequence(KeptPrompts(e),
                                  OutputUnder(call.result, sanitizeCategoryName(e.k)))


\* C29: whenever a board generated from an upload is displayed and no handler
\* is running, the layout holds the free space marker at index 12 exactly when
\* the free-space setting is enabled, also when the setting was toggled while
\* an upload's file was being read and that upload has completed since.
C29_MarkerFollowsSetting ==
    (prompts.loaded /\ Len(boardTiles) = 25 /\ gen.pc = "idle") =>
        (boardTiles[FreeSpaceIndex + 1] = FREE_SPACE <=> includeFreeSpace)


\* pattern occurs in the text s
Occurs(pattern, s) ==
    \E i \in 1..(Len(s) - Len(pattern) + 1) : SubSeq(s, i, i + Len(pattern) - 1) = pattern

\* the file name handleDownloadPdf would export under in this state: the
\* preview is exported when no board is displayed
ExportedName ==
    generatePdfFilename(originalFileName, boardStats.version, Len(boardTiles) = 0, Today)

\* C30: in every state of a session the displayed layout is empty or has
\* exactly 25 cells, it is non-empty exactly when a catalog is stored, and the
\* version is above 1 only when a catalog is stored, so that the exported
\* file name never carries both a version suffix and the preview suffix.
C30_SessionShape ==
    /\ Len(boardTiles) \in {0, 25}
    /\ Len(boardTiles) > 0 <=> prompts.loaded
    /\ boardStats.version > 1 => prompts.loaded
    /\ ~(/\ Occurs(<<"-", "v">> \o IndexKey(boardStats.version), ExportedName)
         /\ Occurs(<<"-", "p", "r", "e", "v", "i", "e", "w">>, ExportedName))

\* a recreated board of an uploaded catalog is displayed under the free-space
\* setting, its exported name carrying the version suffix
C30_Witness ==
    /\ gen.pc = "idle"
    /\ includeFreeSpace
    /\ prompts.loaded
    /\ Len(boardTiles) = 25
    /\ boardStats.version > 1
    /\ Occurs(<<"-", "v">> \o IndexKey(boardStats.version), ExportedName)

====
